---- MODULE Spec2Model ----
(***************************************************************************)
(* lbuffer: the record scanner find_bytes and the reader task of           *)
(* src/src/main.rs, as a state machine.                                    *)
(*                                                                         *)
(* Byte strings are sequences of byte values.  Rust slices are 0-based and *)
(* half-open; Slice(v, a, b) is v[a..b].                                   *)
(***************************************************************************)
EXTENDS Integers, Sequences, FiniteSets, TLC

\* ---------------------------------------------------------------- bounds
MaxInput == 3
MaxDelim == 2
MaxBuffers == 6
MaxLines == 3
MaxRecords == 4

\* the byte values inputs and delimiters are drawn from: "\n" and "|"
Byte == {10, 124}

SeqsUpTo(S, n) == UNION {[1..k -> S] : k \in 0..n}

\* the input "abc\ndef" of the specification's example
AbcDef == <<97, 98, 99, 10, 100, 101, 102>>

Inputs == SeqsUpTo(Byte, MaxInput) \cup {AbcDef}

\* reader takes any Vec<u8> as delimiter, the empty one included
Delimiters == SeqsUpTo(Byte, MaxDelim)

\* ------------------------------------------------------ program constants
PAGE == 4096

\* ------------------------------------------------------------ Vec<u8> ops
Min(a, b) == IF a <= b THEN a ELSE b

\* std::cmp::max
max(a, b) == IF a >= b THEN a ELSE b

\* v[a..b]
Slice(v, a, b) == SubSeq(v, a + 1, b)

\* Vec::resize(new_len, value)
resize(v, new_len, value) ==
    IF new_len <= Len(v)
    THEN SubSeq(v, 1, new_len)
    ELSE v \o [i \in 1..(new_len - Len(v)) |-> value]

\* Vec::truncate(len)
truncate(v, len) == IF len >= Len(v) THEN v ELSE SubSeq(v, 1, len)

\* Read::read(&mut buf[offset..]) delivering `chunk`: the bytes land at
\* buf[offset .. offset + len(chunk)], the rest of buf is untouched
read_into(buf, offset, chunk) ==
    [i \in 1..Len(buf) |->
        IF i > offset /\ i <= offset + Len(chunk) THEN chunk[i - offset] ELSE buf[i]]

\* ------------------------------------------------------------- Option<usize>
Some(i) == [tag |-> "Some", off |-> i]
None == [tag |-> "None", off |-> 0]
\* the call does not return: the thread panics
Panic == [tag |-> "Panic", off |-> 0]

\* ------------------------------------------------------------- find_bytes
\* the for loop of find_bytes over offset..end (end excluded)
RECURSIVE find_loop(_, _, _, _)
find_loop(haystack, needle, offset, end) ==
    IF offset >= end THEN None
    ELSE IF Slice(haystack, offset, offset + Len(needle)) = needle THEN Some(offset)
    ELSE find_loop(haystack, needle, offset + 1, end)

\* haystack.len() - needle.len() is a usize subtraction.  When the needle is
\* the longer one it overflows: a build with overflow checks panics there; a
\* build without them wraps to 2^64 - k, the loop starts at offset 0 and the
\* slice haystack[0..needle.len()] is out of range, which panics as well.
find_bytes(haystack, needle) ==
    IF Len(haystack) < Len(needle)
    THEN Panic
    ELSE find_loop(haystack, needle, 0, Len(haystack) - Len(needle))

\* ---------------------------------------------------------------- Message
Line(v) == [kind |-> "Line", bytes |-> v, res |-> "Ok"]
End(r) == [kind |-> "End", bytes |-> <<>>, res |-> r]

\* ------------------------------------------------------------------ state
VARIABLES
    input,          \* the bytes the source (stdin) delivers
    delimiter,      \* reader's delimiter argument
    pos,            \* number of input bytes the physical reads have delivered
    pc,             \* where the reader is: recv, read, send_again, send,
                    \* send_last, send_eof, done (scan, scanned: find_bytes alone)
    hold_buf,       \* Option<Vec<u8>>: <<>> is None, <<v>> is Some(v)
    held,           \* the buffer moved out of hold_buf
    next_buf,       \* the buffer received from empty_receiver
    offset,         \* length of held before the next physical read
    haystack,       \* the slice last handed to find_bytes
    delimiter_off,  \* what find_bytes last returned
    sent,           \* the messages sent on full_sender, in send order
    received,       \* number of Line messages received on empty_receiver
    result,         \* what reader returned: Running until it has
    hungUp,         \* the coordinator dropped its channel ends
    run,            \* 1, or 2 when the reader runs again on the same input
    firstRun,       \* the Line payloads the first run sent
    args,           \* Args: buffer_lines, high_wm, low_wm
    mpc,            \* where the main thread is: validate, amain, flags, act,
                    \* returned, exited (idle: the reader or find_bytes alone)
    exit,           \* how the process ended: Running until it has
    started,        \* amain has created the channels and the Queue
    buffer,         \* the Queue of Records (amain's ArrayQueue), oldest first
    reading,        \* the coordinator's read-enable flag
    writing,        \* the coordinator's write-enable flag
    more_to_read,   \* no End(Ok) has been received from the reader yet
    produced,       \* number of Records the coordinator has taken over
    output          \* the Records written to the output, in write order

\* the reader's state, and the main thread's
readerVars == <<input, delimiter, pos, pc, hold_buf, held, next_buf, offset,
                haystack, delimiter_off, sent, received, result, hungUp, run,
                firstRun>>

mainVars == <<args, mpc, exit, started, buffer, reading, writing, more_to_read,
              produced, output>>

vars == <<readerVars, mainVars>>

\* Args as clap fills it when no option is given (lines 60, 64, 68)
DefaultArgs == [buffer_lines |-> 1024, high_wm |-> 1, low_wm |-> 1023]

\* the main thread's part of the state while the reader (or find_bytes) is
\* looked at on its own
MainIdle ==
    /\ args = DefaultArgs
    /\ mpc = "idle"
    /\ exit = "Running"
    /\ started = FALSE
    /\ buffer = <<>>
    /\ reading = TRUE
    /\ writing = FALSE
    /\ more_to_read = TRUE
    /\ produced = 0
    /\ output = <<>>

\* the locals of one loop iteration, cleared when the iteration ends
ClearLocals ==
    /\ held' = <<>>
    /\ next_buf' = <<>>
    /\ offset' = 0

\* reader returns (or panics) with result r
Return(r) ==
    /\ pc' = "done"
    /\ result' = r

\* --------------------------------------------------------------- reader
\* lines 143-146: hold_buf = None, nothing received or sent
Init ==
    /\ input \in Inputs
    /\ delimiter \in Delimiters
    /\ pos = 0
    /\ pc = "recv"
    /\ hold_buf = <<>>
    /\ held = <<>>
    /\ next_buf = <<>>
    /\ offset = 0
    /\ haystack = <<>>
    /\ delimiter_off = None
    /\ sent = <<>>
    /\ received = 0
    /\ result = "Running"
    /\ hungUp = FALSE
    /\ run = 1
    /\ firstRun = <<>>
    /\ MainIdle

\* the coordinator drops its Sender and Receiver (amain returns)
CoordinatorHangUp ==
    /\ pc \notin {"done", "scan", "scanned"}
    /\ ~hungUp
    /\ hungUp' = TRUE
    /\ UNCHANGED <<input, delimiter, pos, pc, hold_buf, held, next_buf, offset,
                   haystack, delimiter_off, sent, received, result, run, firstRun>>
    /\ UNCHANGED mainVars

\* lines 148-155: empty_receiver.recv() fails
RecvHungUp ==
    /\ pc = "recv"
    /\ hungUp
    /\ Return("ErrHungUp")
    /\ UNCHANGED <<input, delimiter, pos, hold_buf, held, next_buf, offset,
                   haystack, delimiter_off, sent, received, hungUp, run, firstRun>>
    /\ UNCHANGED mainVars

\* lines 158-167: the coordinator sent End(res)
RecvEnd ==
    /\ pc = "recv"
    /\ ~hungUp
    /\ \E res \in {"Ok", "Err"} :
          Return(IF res = "Ok" THEN "ErrStop" ELSE "ErrMain")
    /\ UNCHANGED <<input, delimiter, pos, hold_buf, held, next_buf, offset,
                   haystack, delimiter_off, sent, received, hungUp, run, firstRun>>
    /\ UNCHANGED mainVars

\* lines 203-205
search_start(off, delim) == max(0, off - Len(delim) + 1)

\* lines 174 and 208: the split point computed from what find_bytes returned
split_point(found, delim) == found.off + Len(delim)

\* the buffers the coordinator may hand over: empty ones are expected
Buffers == {<<>>, <<0>>}

\* lines 156-183: a Line(v) message is received
RecvLine ==
    /\ pc = "recv"
    /\ ~hungUp
    /\ received < MaxBuffers
    /\ received' = received + 1
    /\ \E v \in Buffers :
          IF Len(v) # 0
          THEN \* line 169: assert_eq!(next_buf.len(), 0) panics
               /\ Return("PanicAssert")
               /\ UNCHANGED <<hold_buf, held, next_buf, offset, haystack, delimiter_off>>
          ELSE IF hold_buf = <<>>
          THEN \* line 171: no Hold Buffer yet, the received buffer becomes it
               /\ hold_buf' = <<v>>
               /\ UNCHANGED <<pc, result, held, next_buf, offset, haystack, delimiter_off>>
          ELSE LET h == hold_buf[1]
                   found == find_bytes(h, delimiter)
                   leftover == split_point(found, delimiter)
               IN  /\ haystack' = h
                   /\ delimiter_off' = found
                   /\ CASE found.tag = "Some" ->
                             \* lines 174-176: split, the Record is sent next
                             /\ next_buf' = v \o Slice(h, leftover, Len(h))
                             /\ held' = truncate(h, leftover)
                             /\ hold_buf' = <<>>
                             /\ pc' = "send_again"
                             /\ UNCHANGED <<offset, result>>
                        [] found.tag = "None" ->
                             \* line 183: enter the read loop
                             /\ next_buf' = v
                             /\ held' = h
                             /\ offset' = Len(h)
                             /\ hold_buf' = <<>>
                             /\ pc' = "read"
                             /\ UNCHANGED result
                        [] found.tag = "Panic" ->
                             /\ Return("PanicScan")
                             /\ UNCHANGED <<hold_buf, held, next_buf, offset>>
    /\ UNCHANGED <<input, delimiter, pos, sent, hungUp, run, firstRun>>
    /\ UNCHANGED mainVars

\* line 186: the length held is resized to before a physical read
next_size(off) == ((off \div PAGE) + 1) * PAGE

\* lines 187-188, 202: resize, a physical read delivering `chunk`, truncate
read_chunk(h, off, chunk) ==
    truncate(read_into(resize(h, next_size(off), 0), off, chunk), off + Len(chunk))

\* line 206: the window searched after a read
search_window(h, off, delim) == Slice(h, search_start(off, delim), Len(h))

\* the sizes a physical read may deliver: at least one byte, at most what the
\* source has left and what the slice held[offset..next_size] takes
ReadSizes == 1..Min(Len(input) - pos, next_size(offset) - offset)

\* lines 189-191: the source is at end-of-stream, read returns Ok(0)
ReadEof ==
    /\ pc = "read"
    /\ pos = Len(input)
    /\ held' = truncate(resize(held, next_size(offset), 0), offset)
    /\ pc' = "send_last"
    /\ UNCHANGED <<input, delimiter, pos, hold_buf, next_buf, offset, haystack,
                   delimiter_off, sent, received, result, hungUp, run, firstRun>>
    /\ UNCHANGED mainVars

\* lines 201-221: read returns Ok(bytes) with bytes > 0
ReadOk ==
    /\ pc = "read"
    /\ \E bytes \in ReadSizes :
          LET h == read_chunk(held, offset, Slice(input, pos, pos + bytes))
              window == search_window(h, offset, delimiter)
              found == find_bytes(window, delimiter)
              leftover == split_point(found, delimiter)
          IN  /\ pos' = pos + bytes
              /\ haystack' = window
              /\ delimiter_off' = found
              /\ CASE found.tag = "Some" ->
                        \* lines 208-210: split, the Record is sent next
                        /\ next_buf' = next_buf \o Slice(h, leftover, Len(h))
                        /\ held' = truncate(h, leftover)
                        /\ pc' = "send"
                        /\ UNCHANGED <<offset, result>>
                   [] found.tag = "None" ->
                        \* lines 217-219: keep reading
                        /\ held' = h
                        /\ offset' = offset + bytes
                        /\ UNCHANGED <<pc, next_buf, result>>
                   [] found.tag = "Panic" ->
                        /\ held' = h
                        /\ Return("PanicScan")
                        /\ UNCHANGED <<next_buf, offset>>
    /\ UNCHANGED <<input, delimiter, hold_buf, sent, received, hungUp, run, firstRun>>
    /\ UNCHANGED mainVars

\* lines 222-226: the physical read fails
ReadErr ==
    /\ pc = "read"
    /\ Return("ErrRead")
    /\ UNCHANGED <<input, delimiter, pos, hold_buf, held, next_buf, offset,
                   haystack, delimiter_off, sent, received, hungUp, run, firstRun>>
    /\ UNCHANGED mainVars

\* lines 177-181: the Record split off the Hold Buffer goes out, the
\* remainder becomes the Hold Buffer
SendAgain ==
    /\ pc = "send_again"
    /\ ~hungUp
    /\ sent' = Append(sent, Line(held))
    /\ hold_buf' = <<next_buf>>
    /\ ClearLocals
    /\ pc' = "recv"
    /\ UNCHANGED <<input, delimiter, pos, haystack, delimiter_off, received,
                   result, hungUp, run, firstRun>>
    /\ UNCHANGED mainVars

\* SendLine with the wait for a new buffer left out: after the send the
\* remainder is taken as the Hold Buffer and the read loop goes on at once
SendLineNoWait ==
    /\ pc = "send"
    /\ ~hungUp
    /\ sent' = Append(sent, Line(held))
    /\ hold_buf' = <<>>
    /\ held' = next_buf
    /\ offset' = Len(next_buf)
    /\ next_buf' = <<>>
    /\ pc' = "read"
    /\ UNCHANGED <<input, delimiter, pos, haystack, delimiter_off, received,
                   result, hungUp, run, firstRun>>
    /\ UNCHANGED mainVars

\* lines 211-215: the Record found after a read goes out, the remainder
\* becomes the Hold Buffer
SendLine ==
    /\ pc = "send"
    /\ ~hungUp
    /\ sent' = Append(sent, Line(held))
    /\ hold_buf' = <<next_buf>>
    /\ ClearLocals
    /\ pc' = "recv"
    /\ UNCHANGED <<input, delimiter, pos, haystack, delimiter_off, received,
                   result, hungUp, run, firstRun>>
    /\ UNCHANGED mainVars

\* lines 192-194: the final Record
SendLast ==
    /\ pc = "send_last"
    /\ ~hungUp
    /\ sent' = Append(sent, Line(held))
    /\ held' = <<>>
    /\ pc' = "send_eof"
    /\ UNCHANGED <<input, delimiter, pos, hold_buf, next_buf, offset, haystack,
                   delimiter_off, received, result, hungUp, run, firstRun>>
    /\ UNCHANGED mainVars

\* lines 195-199: the Stream End Marker, then return Ok(())
SendEof ==
    /\ pc = "send_eof"
    /\ ~hungUp
    /\ sent' = Append(sent, End("Ok"))
    /\ hold_buf' = <<>>
    /\ Return("Ok")
    /\ UNCHANGED <<input, delimiter, pos, held, next_buf, offset, haystack,
                   delimiter_off, received, hungUp, run, firstRun>>
    /\ UNCHANGED mainVars

\* SendFails with the error of the send swallowed: the reader returns Ok
SendFailsIgnored ==
    /\ pc \in {"send_again", "send", "send_last", "send_eof"}
    /\ hungUp
    /\ Return("Ok")
    /\ UNCHANGED <<input, delimiter, pos, hold_buf, held, next_buf, offset,
                   haystack, delimiter_off, sent, received, hungUp, run, firstRun>>
    /\ UNCHANGED mainVars

\* full_sender.send(..)? at any of the four send sites after the hang-up
SendFails ==
    /\ pc \in {"send_again", "send", "send_last", "send_eof"}
    /\ hungUp
    /\ Return("ErrSend")
    /\ UNCHANGED <<input, delimiter, pos, hold_buf, held, next_buf, offset,
                   haystack, delimiter_off, sent, received, hungUp, run, firstRun>>
    /\ UNCHANGED mainVars

Next ==
    \/ CoordinatorHangUp
    \/ RecvHungUp
    \/ RecvEnd
    \/ RecvLine
    \/ ReadEof
    \/ ReadOk
    \/ ReadErr
    \/ SendAgain
    \/ SendLine
    \/ SendLast
    \/ SendEof
    \/ SendFails

Spec == Init /\ [][Next]_vars

\* ------------------------------------------------- the read loop on its own
\* The read loop of lines 183-228 taken on its own: the reader at line 183
\* with the empty Hold Buffer that line 171 installed and a second buffer
\* received, where it stands once the scan of line 173 has reported no match.
\* (Under Spec that scan panics for every non-empty delimiter, so the loop is
\* entered there with the empty delimiter only.)
InitLoop ==
    /\ input \in Inputs
    /\ delimiter \in Delimiters
    /\ pos = 0
    /\ pc = "read"
    /\ hold_buf = <<>>
    /\ held = <<>>
    /\ next_buf = <<>>
    /\ offset = 0
    /\ haystack = <<>>
    /\ delimiter_off = None
    /\ sent = <<>>
    /\ received = 2
    /\ result = "Running"
    /\ hungUp = FALSE
    /\ run = 1
    /\ firstRun = <<>>
    /\ MainIdle

\* the payloads of the Line messages among msgs, in order
RECURSIVE Lines(_)
Lines(msgs) ==
    IF msgs = <<>> THEN <<>>
    ELSE IF Head(msgs).kind = "Line"
         THEN <<Head(msgs).bytes>> \o Lines(Tail(msgs))
         ELSE Lines(Tail(msgs))

\* The reader has returned Ok(()); it is run once more on the same input and
\* delimiter (the source may split the input differently), the Records of the
\* first run being kept for comparison.
RunAgain ==
    /\ pc = "done"
    /\ result = "Ok"
    /\ run = 1
    /\ run' = 2
    /\ firstRun' = Lines(sent)
    /\ pos' = 0
    /\ pc' = "read"
    /\ hold_buf' = <<>>
    /\ ClearLocals
    /\ haystack' = <<>>
    /\ delimiter_off' = None
    /\ sent' = <<>>
    /\ received' = 2
    /\ result' = "Running"
    /\ hungUp' = FALSE
    /\ UNCHANGED <<input, delimiter>>
    /\ UNCHANGED mainVars

NextLoop ==
    \/ Next
    \/ RunAgain

SpecLoop == InitLoop /\ [][NextLoop]_vars

\* ------------------------------------------------------ find_bytes on its own
InitFind ==
    /\ haystack \in SeqsUpTo(Byte, MaxInput)
    /\ delimiter \in Delimiters
    /\ pc = "scan"
    /\ delimiter_off = None
    /\ input = <<>>
    /\ pos = 0
    /\ hold_buf = <<>>
    /\ held = <<>>
    /\ next_buf = <<>>
    /\ offset = 0
    /\ sent = <<>>
    /\ received = 0
    /\ result = "Running"
    /\ hungUp = FALSE
    /\ run = 1
    /\ firstRun = <<>>
    /\ MainIdle

\* find_bytes(haystack, delimiter) is called
Scan ==
    /\ pc = "scan"
    /\ delimiter_off' = find_bytes(haystack, delimiter)
    /\ pc' = "scanned"
    /\ UNCHANGED <<input, delimiter, pos, hold_buf, held, next_buf, offset,
                   haystack, sent, received, result, hungUp, run, firstRun>>
    /\ UNCHANGED mainVars

NextFind == Scan

SpecFind == InitFind /\ [][NextFind]_vars

\* ---------------------------------------------------------- main and amain
\* the example configuration buffer_lines 10, high_wm 2, low_wm 8
ExampleArgs == [buffer_lines |-> 10, high_wm |-> 2, low_wm |-> 8]

\* the command lines tried: every small triple, the defaults, the example
Configs ==
    [buffer_lines : 0..MaxLines, high_wm : 0..MaxLines, low_wm : 0..MaxLines]
        \cup {DefaultArgs, ExampleArgs}

\* validate with > where the code has >=
validate_gt(a) ==
    IF a.high_wm > a.buffer_lines THEN "ConflictHighWm"
    ELSE IF a.low_wm > a.buffer_lines THEN "ConflictLowWm"
    ELSE "Valid"

\* validate without its low_wm test
validate_no_low(a) ==
    IF a.high_wm >= a.buffer_lines THEN "ConflictHighWm"
    ELSE "Valid"

\* validate without its high_wm test
validate_no_high(a) ==
    IF a.low_wm >= a.buffer_lines THEN "ConflictLowWm"
    ELSE "Valid"

\* Args::validate, lines 81-95: which test, if any, makes it exit
validate(a) ==
    IF a.high_wm >= a.buffer_lines THEN "ConflictHighWm"
    ELSE IF a.low_wm >= a.buffer_lines THEN "ConflictLowWm"
    ELSE "Valid"

\* no reader thread exists: nothing is read from the input, nothing is sent
ReaderUnspawned ==
    /\ delimiter = <<10>>
    /\ pos = 0
    /\ pc = "unspawned"
    /\ hold_buf = <<>>
    /\ held = <<>>
    /\ next_buf = <<>>
    /\ offset = 0
    /\ haystack = <<>>
    /\ delimiter_off = None
    /\ sent = <<>>
    /\ received = 0
    /\ result = "Running"
    /\ hungUp = FALSE
    /\ run = 1
    /\ firstRun = <<>>

\* main, line 298: the arguments are parsed, the input is waiting unread
InitMain ==
    /\ input \in Inputs
    /\ ReaderUnspawned
    /\ args \in Configs
    /\ mpc = "validate"
    /\ exit = "Running"
    /\ started = FALSE
    /\ buffer = <<>>
    /\ reading = TRUE
    /\ writing = FALSE
    /\ more_to_read = TRUE
    /\ produced = 0
    /\ output = <<>>

\* main, line 299: args.validate() exits the process or returns
Validate ==
    /\ mpc = "validate"
    /\ IF validate(args) = "Valid"
         THEN mpc' = "amain" /\ exit' = exit
         ELSE mpc' = "exited" /\ exit' = "ConfigError"
    /\ UNCHANGED <<args, started, buffer, reading, writing, more_to_read,
                   produced, output>>
    /\ UNCHANGED readerVars

\* main, line 301, and amain, lines 245-249: the channels and the Queue are
\* created and amain returns Ok(()); no thread is spawned, nothing is read
\* or written
Amain ==
    /\ mpc = "amain"
    /\ started' = TRUE
    /\ buffer' = <<>>
    /\ mpc' = "returned"
    /\ exit' = "Ok"
    /\ UNCHANGED <<args, reading, writing, more_to_read, produced, output>>
    /\ UNCHANGED readerVars

NextMain ==
    \/ Validate
    \/ Amain

SpecMain == InitMain /\ [][NextMain]_vars

\* ------------------------------------------- the coordinator loop of amain
\* lines 275-292, the loop that amain's comment block outlines after its
\* return: the flag rules are taken from there; the steps that act on
\* will_read and will_write follow the description of the Queue
\* writing recomputed from the queue length only
update_writing_no_hysteresis(len, w, a) == len >= a.high_wm /\ len # 0

\* lines 279-284
update_writing(len, w, a) ==
    LET w1 == IF len >= a.high_wm THEN TRUE ELSE w
    IN  IF len = 0 THEN FALSE ELSE w1

\* update_reading with > where line 288 has >=
update_reading_gt(len, r, a) ==
    LET r1 == IF len <= a.low_wm THEN TRUE ELSE r
    IN  IF len > a.buffer_lines THEN FALSE ELSE r1

\* lines 285-290
update_reading(len, r, a) ==
    LET r1 == IF len <= a.low_wm THEN TRUE ELSE r
    IN  IF len >= a.buffer_lines THEN FALSE ELSE r1

\* line 291
will_read == more_to_read /\ reading

\* line 292
will_write == writing

\* the n-th Record the reader hands over
Record(n) == <<n, 10>>

\* lines 275-277 after a successful validate: the flags' initial values, an
\* empty Queue
InitCoord ==
    /\ args \in {a \in Configs : validate(a) = "Valid"}
    /\ mpc = "flags"
    /\ exit = "Running"
    /\ started = TRUE
    /\ buffer = <<>>
    /\ reading = TRUE
    /\ writing = FALSE
    /\ more_to_read = TRUE
    /\ produced = 0
    /\ output = <<>>
    /\ input = <<>>
    /\ ReaderUnspawned

\* lines 279-292: one pass over the four flag rules
UpdateFlags ==
    /\ mpc = "flags"
    /\ writing' = update_writing(Len(buffer), writing, args)
    /\ reading' = update_reading(Len(buffer), reading, args)
    /\ mpc' = "act"
    /\ UNCHANGED <<args, exit, started, buffer, more_to_read, produced, output>>
    /\ UNCHANGED readerVars

\* will_read: a Record from the reader is put at the back of the Queue
CoordRead ==
    /\ mpc = "act"
    /\ will_read
    /\ produced < MaxRecords
    /\ produced' = produced + 1
    /\ buffer' = Append(buffer, Record(produced + 1))
    /\ mpc' = "flags"
    /\ UNCHANGED <<args, exit, started, reading, writing, more_to_read, output>>
    /\ UNCHANGED readerVars

\* will_read: the reader's End(Ok) arrives instead of a Record
CoordEnd ==
    /\ mpc = "act"
    /\ will_read
    /\ more_to_read' = FALSE
    /\ mpc' = "flags"
    /\ UNCHANGED <<args, exit, started, buffer, reading, writing, produced,
                   output>>
    /\ UNCHANGED readerVars

\* will_write: the Record at the front of the Queue is written
CoordWrite ==
    /\ mpc = "act"
    /\ will_write
    /\ buffer # <<>>
    /\ output' = Append(output, Head(buffer))
    /\ buffer' = Tail(buffer)
    /\ mpc' = "flags"
    /\ UNCHANGED <<args, exit, started, reading, writing, more_to_read,
                   produced>>
    /\ UNCHANGED readerVars

\* input exhausted and Queue empty: the loop exits with success
CoordDone ==
    /\ mpc = "act"
    /\ ~more_to_read
    /\ buffer = <<>>
    /\ mpc' = "returned"
    /\ exit' = "Ok"
    /\ UNCHANGED <<args, started, buffer, reading, writing, more_to_read,
                   produced, output>>
    /\ UNCHANGED readerVars

NextCoord ==
    \/ UpdateFlags
    \/ CoordRead
    \/ CoordEnd
    \/ CoordWrite
    \/ CoordDone

SpecCoord == InitCoord /\ [][NextCoord]_vars

\* ------------------------------------------------------------ properties
Last(s) == s[Len(s)]

RECURSIVE Concat(_)
Concat(ss) == IF ss = <<>> THEN <<>> ELSE Head(ss) \o Concat(Tail(ss))

SetMin(S) == CHOOSE x \in S : \A y \in S : x <= y

\* the indices i with h[i .. i+len(needle)] == needle
Occurrences(h, needle) ==
    {i \in 0..(Len(h) - Len(needle)) : Slice(h, i, i + Len(needle)) = needle}

\* the index of the first byte after the first occurrence of needle in h
FirstEnd(h, needle) == SetMin(Occurrences(h, needle)) + Len(needle)

\* r ends with the delimiter and holds no other occurrence of it
IsRecord(r, delim) == Occurrences(r, delim) = {Len(r) - Len(delim)}

\* the reader has stopped, and neither the coordinator nor a failed read
\* stopped it
Finished == pc = "done" /\ result \in {"Ok", "PanicScan"}

\* C1: round trip.  For a non-empty delimiter, once the reader has finished,
\* the Line payloads it sent, concatenated in send order, are the input.
C1_RoundTrip ==
    (Len(delimiter) >= 1 /\ Finished) => Concat(Lines(sent)) = input

C5_FindsFirstOccurrence ==
    (pc = "scanned" /\ Len(delimiter) >= 1) =>
        /\ Occurrences(haystack, delimiter) # {}
              => delimiter_off = Some(SetMin(Occurrences(haystack, delimiter)))
        /\ delimiter_off = None => Occurrences(haystack, delimiter) = {}

\* C6: a search of a buffer shorter than the delimiter (the empty buffer
\* included) reports None and the reader goes on; it never panics.
C6_ShortBufferIsNotFound ==
    Len(delimiter) > Len(haystack) => (delimiter_off = None /\ result # "PanicScan")

\* C7: empty input.  When the source has no bytes, a finished reader has sent
\* no Line and exactly one End(Ok) and returned Ok; and the final Record sent
\* at end-of-stream is never zero-length.
C7_EmptyInput ==
    /\ (input = <<>> /\ Finished) => (sent = <<End("Ok")>> /\ result = "Ok")
    /\ pc = "send_eof" => Last(sent).bytes # <<>>

\* C8: final record without delimiter.  A reader that ends the stream has sent
\* the bytes left in the Hold Buffer, and nothing else, as one final Record
\* followed by End(Ok); and "abc\ndef" with delimiter "\n" yields "abc\n",
\* "def".
C8_FinalRecord ==
    /\ result = "Ok" =>
          /\ Len(sent) >= 2
          /\ sent[Len(sent)] = End("Ok")
          /\ sent[Len(sent) - 1].kind = "Line"
          /\ Concat(Lines(sent)) = input
    /\ (input = AbcDef /\ delimiter = <<10>> /\ Finished) =>
          sent = <<Line(<<97, 98, 99, 10>>), Line(<<100, 101, 102>>), End("Ok")>>

\* C9: whenever the reader has terminated (not stopped by the coordinator), it
\* has sent exactly one End message and that End is the last message sent.
C9_ExactlyOneEndLast ==
    (pc = "done" /\ result \in {"Ok", "ErrRead", "PanicScan"}) =>
        /\ Cardinality({k \in 1..Len(sent) : sent[k].kind = "End"}) = 1
        /\ Last(sent).kind = "End"

\* C10: when a physical read fails, the reader has sent an End marker
\* carrying the error as its last message before it terminates.
C10_ReadErrorSendsEnd ==
    result = "ErrRead" =>
        /\ sent # <<>>
        /\ Last(sent) = End("ErrRead")

\* C17: reader forward progress.  With a non-empty delimiter and an input
\* that holds a delimiter-terminated record, the reader does not abort between
\* its first buffer and its first physical read, and once it has finished it
\* has sent that record as its first Line.
C17_FirstRecordSent ==
    (Len(delimiter) >= 1 /\ Occurrences(input, delimiter) # {}) =>
        /\ (received >= 1 /\ pos = 0) => result # "PanicScan"
        /\ Finished =>
              /\ sent # <<>>
              /\ sent[1] = Line(Slice(input, 0, FirstEnd(input, delimiter)))

\* C18: hang-up or stop request.  A failed recv, an End message received or a
\* failed send ends the reader at once with an error result and without
\* another message sent; a reader that has returned sends nothing more.
C18_StopsOnHangUp ==
    [][/\ (pc = "recv" /\ hungUp) =>
              (pc' = "done" /\ result' = "ErrHungUp" /\ sent' = sent)
       /\ (pc \in {"send_again", "send", "send_last", "send_eof"} /\ hungUp) =>
              (pc' = "done" /\ result' = "ErrSend" /\ sent' = sent)
       /\ (result = "Running" /\ result' \in {"ErrStop", "ErrMain"}) =>
              (pc = "recv" /\ pc' = "done" /\ sent' = sent)
       /\ pc = "done" =>
              (pc' = "done" /\ result' = result /\ sent' = sent)]_vars

\* C18 witness: a send failed after the hang-up and the reader returned
C18_Witness == pc = "done" /\ result = "ErrSend" /\ hungUp

\* C19 as stated: in every reachable state the reader has sent strictly fewer
\* Line messages than it has received buffers.
C19_StrictlyFewerLinesThanBuffers == Len(Lines(sent)) < received

\* C19 as amended: before the first buffer is received nothing is read or
\* sent; from then on the Lines sent are strictly fewer than the buffers
\* received, and a Line about to be sent still leaves them fewer (every Line
\* is paid for by a buffer received after the Line before it).
C19_BufferCredit ==
    /\ received = 0 => (sent = <<>> /\ pos = 0 /\ pc \in {"recv", "done"})
    /\ received > 0 => Len(Lines(sent)) < received
    /\ pc \in {"send_again", "send", "send_last"} => Len(Lines(sent)) + 1 < received

\* C19 witness: two Lines sent on three buffers received
C19_Witness == Len(Lines(sent)) = 2 /\ received = 3

\* C11: when the run ends in success, the Records written to the output,
\* concatenated in write order, are the input stream: none lost, duplicated
\* or reordered.
C11_OutputIsInput == exit = "Ok" => Concat(output) = input

\* C12: the run ends in success only after End(Ok) has been received from the
\* reader and every Record taken over has left the Queue for the output.
C12_SuccessOnlyWhenDrained ==
    exit = "Ok" =>
        /\ ~more_to_read
        /\ buffer = <<>>
        /\ Len(output) = produced

\* a watermark configuration that Args::validate must refuse
Conflicting(a) == a.high_wm >= a.buffer_lines \/ a.low_wm >= a.buffer_lines

\* C15: with high_wm >= buffer_lines or low_wm >= buffer_lines the run ends
\* with a configuration error: amain is never entered, no channel or Queue is
\* created, no input is read and no output written.
C15_ConflictRejectedBeforeIO ==
    Conflicting(args) =>
        /\ mpc \in {"validate", "exited"}
        /\ mpc = "exited" => exit = "ConfigError"
        /\ mpc = "validate" => exit = "Running"
        /\ ~started
        /\ pc = "unspawned" /\ pos = 0 /\ sent = <<>>
        /\ output = <<>>

C15_Witness ==
    /\ mpc = "exited"
    /\ exit = "ConfigError"
    /\ args.low_wm >= args.buffer_lines
    /\ args.high_wm < args.buffer_lines

\* C16 as stated: every configuration that passes validation has
\* low_wm < high_wm < buffer_lines.
C16_LowBelowHighBelowCapacity ==
    mpc \in {"amain", "returned"} =>
        (args.low_wm < args.high_wm /\ args.high_wm < args.buffer_lines)

\* C16: every configuration that passes validation, the defaults included,
\* has high_wm < buffer_lines and low_wm < buffer_lines; the order of low_wm
\* and high_wm is not constrained.
C16_BothBelowCapacity ==
    /\ mpc \in {"amain", "returned"} =>
          (args.high_wm < args.buffer_lines /\ args.low_wm < args.buffer_lines)
    /\ args = DefaultArgs => mpc # "exited"

C16_Witness ==
    /\ mpc = "returned"
    /\ args = DefaultArgs
    /\ args.high_wm < args.low_wm

\* a pass over the flag rules
FlagsStep == mpc = "flags" /\ mpc' = "act"

\* the loop can neither read, write nor exit
Stalled ==
    /\ mpc = "act"
    /\ ~will_read
    /\ ~will_write
    /\ ~(~more_to_read /\ buffer = <<>>)

====
